---- MODULE Spec2Model ----
(***************************************************************************)
(* MoodMate: the client-side emotion-estimation pipeline of                *)
(* CameraCapture.tsx (fast provisional detection, background multi-frame   *)
(* analysis, landmark heuristics, remote fallback, arbitration), the page  *)
(* that hosts it (Index.tsx), the /api/classify handler                    *)
(* (openai-classify.ts), and the EmotionResult component with the joke     *)
(* and quote proxies it fetches from.                                      *)
(*                                                                         *)
(* Scores and confidences are fixed-point numbers in units of 1/300, so    *)
(* that hundredths are integers and the division of a sum of hundredths by *)
(* 3 frames is exact.  Landmark ratios are in thousandths.                 *)
(***************************************************************************)
EXTENDS Integers, Sequences, FiniteSets, TLC

\* ------------------------------------------------------------------ bounds
MaxCaptures == 2        \* captures started over the life of the page
MaxMounts == 2          \* CameraCapture instances mounted over the life of the page

\* ------------------------------------------------------------- fixed point
Pct(n) == 3 * n
One == Pct(100)
Max(a, b) == IF a >= b THEN a ELSE b
Min(a, b) == IF a <= b THEN a ELSE b

\* ------------------------------------------------------ expression vectors
\* Key order of an expression object, as Object.entries walks it.
LabelOrder == <<"neutral", "happy", "sad", "angry", "fearful", "disgusted", "surprised">>
Labels == {LabelOrder[k] : k \in 1..Len(LabelOrder)}
ZeroVec == [l \in Labels |-> 0]
Vec1(l, s) == [ZeroVec EXCEPT ![l] = s]
Vec2(l1, s1, l2, s2) == [ZeroVec EXCEPT ![l1] = s1, ![l2] = s2]

\* A value of type Record<string, number> | undefined.
Undefined == [kind |-> "undefined", v |-> ZeroVec]
EmptyObj == [kind |-> "empty", v |-> ZeroVec]
Obj(v) == [kind |-> "vector", v |-> v]
\* Any other object with number values: its entries in insertion order.
Rec(es) == [kind |-> "record", es |-> es]

\* Object.entries(expressions)
Entries(expressions) ==
    CASE expressions.kind = "vector" ->
            [k \in 1..Len(LabelOrder) |->
                [key |-> LabelOrder[k], value |-> expressions.v[LabelOrder[k]]]]
      [] expressions.kind = "record" -> expressions.es
      [] OTHER -> <<>>

\* The forEach of line 25-27 from entry k on.
RECURSIVE TopFrom(_, _, _)
TopFrom(es, k, top) ==
    IF k > Len(es) THEN top
    ELSE TopFrom(es, k + 1, IF es[k].value > top.value THEN es[k] ELSE top)

getTopEmotion(expressions) ==
    IF expressions.kind = "undefined" THEN [key |-> "neutral", value |-> 0]
    ELSE TopFrom(Entries(expressions), 1, [key |-> "neutral", value |-> -One])

\* ------------------------------------------------------------------ inputs
\* Outcome of one detector call: it throws, finds no face, or finds a face
\* with an expression vector (and, for the full tier, landmarks).
Throws == [k |-> "throw", e |-> ZeroVec]
NoFace == [k |-> "none", e |-> ZeroVec]
Face(e) == [k |-> "face", e |-> e]

FastExprs == {Vec1("happy", Pct(19)), Vec1("happy", Pct(21)), Vec1("surprised", Pct(100))}
FrameExprs == {Vec2("happy", Pct(90), "sad", Pct(30))}
HeurExprs == {Vec2("sad", Pct(20), "angry", Pct(10)), Vec2("sad", Pct(10), "angry", Pct(70))}

FastOutcomes == {Throws, NoFace} \cup {Face(e) : e \in FastExprs}
FrameOutcomes == {Throws, NoFace} \cup {Face(e) : e \in FrameExprs}

\* ------------------------------------------------------------------- state
VARIABLES
    result,       \* Index: the current DetectionResult, or NoResult
    lastEmotion,  \* localStorage["moodmate:lastEmotion"]
    cur,          \* the CameraCapture instance mounted last
    cams,         \* per instance: React state, load promises, mounted
    ncap,         \* captures started so far
    pipes,        \* per capture: position and locals of captureAndDetect
    emotionResult,  \* EmotionResult: its prop, React state and the runs of its effect
    ev            \* what the last step did (observation of the run)

vars == <<result, lastEmotion, cur, cams, ncap, pipes, emotionResult, ev>>

NoResult == [emotion |-> "", confidence |-> 0, cap |-> 0]
NoError == "none"

Insts == 1..MaxMounts
Caps == 1..MaxCaptures

FreshCam == [mounted |-> TRUE, loadFast |-> "pending", loadFull |-> "pending",
             fastModelsLoaded |-> FALSE, fullModelsLoaded |-> FALSE,
             detecting |-> FALSE, error |-> NoError]
NoCam == [FreshCam EXCEPT !.mounted = FALSE, !.loadFast = "none", !.loadFull = "none"]

IdlePipe == [pc |-> "idle", inst |-> 0, full |-> FALSE,
             quickEmotion |-> "neutral", quickConfidence |-> 0,
             i |-> 0, accum |-> EmptyObj,
             finalEmotion |-> "neutral", finalConfidence |-> 0,
             pubs |-> 0, remoteCalls |-> 0]

NoEvent == [kind |-> "none", cap |-> 0]

ready(c) == c.fastModelsLoaded /\ ~c.detecting

\* EmotionResult before it is first rendered; runs are the calls of run()
\* by its effect that are awaiting their fetches.
MaxRuns == 2
Runs == 1..MaxRuns
IdleRun == [pc |-> "idle", emotion |-> ""]
NoView == [emotion |-> "", message |-> <<>>, loading |-> FALSE, error |-> NoError,
           nrun |-> 0, runs |-> [r \in Runs |-> IdleRun]]

Init ==
    /\ result = NoResult
    /\ lastEmotion = ""
    /\ cur = 1
    /\ cams = [n \in Insts |-> IF n = 1 THEN FreshCam ELSE NoCam]
    /\ ncap = 0
    /\ pipes = [c \in Caps |-> IdlePipe]
    /\ emotionResult = NoView
    /\ ev = NoEvent


\* ---------------------------------------------------------- Index.tsx page
onDetectedNoEffect(r) ==
    /\ result' = r
    /\ UNCHANGED lastEmotion

\* onDetected is setResult; the effect on [result] then stores the emotion.
onDetected(r) ==
    /\ result' = r
    /\ lastEmotion' = IF r.emotion # "" THEN r.emotion ELSE lastEmotion

\* AnimatePresence finishes the exit of the camera view once a result is set;
\* the cleanup of the mount effect sets `cancelled` for both loads.
Cancelled(load) == IF load = "pending" THEN "cancelled" ELSE load

UnmountCamera ==
    /\ result # NoResult
    /\ cams[cur].mounted
    /\ cams' = [cams EXCEPT ![cur].mounted = FALSE,
                            ![cur].loadFast = Cancelled(@),
                            ![cur].loadFull = Cancelled(@)]
    /\ ev' = NoEvent
    /\ UNCHANGED <<result, lastEmotion, cur, ncap, pipes, emotionResult>>

\* "Try Again" in the result view.
reset ==
    /\ result # NoResult
    /\ ~cams[cur].mounted
    /\ result' = NoResult
    /\ ev' = NoEvent
    /\ UNCHANGED <<lastEmotion, cur, cams, ncap, pipes, emotionResult>>

\* With no result the page renders a new CameraCapture: fresh React state,
\* and its mount effect starts both model loads again.
MountCamera ==
    /\ result = NoResult
    /\ ~cams[cur].mounted
    /\ cur < MaxMounts
    /\ cur' = cur + 1
    /\ cams' = [cams EXCEPT ![cur + 1] = FreshCam]
    /\ ev' = NoEvent
    /\ UNCHANGED <<result, lastEmotion, ncap, pipes, emotionResult>>

\* ------------------------------------------------------------ Model Loader
loadFast(ok) ==
    /\ cams[cur].mounted
    /\ cams[cur].loadFast = "pending"
    /\ cams' = [cams EXCEPT ![cur] =
                  IF ok THEN [@ EXCEPT !.loadFast = "ok", !.fastModelsLoaded = TRUE]
                  ELSE [@ EXCEPT !.loadFast = "failed",
                                 !.error = "Failed to load fast face models. Check your connection."]]
    /\ ev' = NoEvent
    /\ UNCHANGED <<result, lastEmotion, cur, ncap, pipes, emotionResult>>

loadFull(ok) ==
    /\ cams[cur].mounted
    /\ cams[cur].loadFull = "pending"
    /\ cams' = [cams EXCEPT ![cur] =
                  IF ok THEN [@ EXCEPT !.loadFull = "ok", !.fullModelsLoaded = TRUE]
                  ELSE [@ EXCEPT !.loadFull = "failed"]]
    /\ ev' = NoEvent
    /\ UNCHANGED <<result, lastEmotion, cur, ncap, pipes, emotionResult>>

\* ------------------------------------------------ captureAndDetect: capture
CaptureFailedStillDetecting(c, p, msg, cs) ==
    /\ cams' = [cs EXCEPT ![p.inst].error = msg]
    /\ pipes' = [pipes EXCEPT ![c] = [IdlePipe EXCEPT !.pc = "aborted", !.inst = p.inst]]
    /\ ev' = [kind |-> "aborted", cap |-> c]
    /\ UNCHANGED <<result, lastEmotion>>

\* The catch of the outer try, entered with the React state cs: the error is
\* shown and detecting is cleared.
CaptureFailed(c, p, msg, cs) ==
    /\ cams' = [cs EXCEPT ![p.inst].error = msg, ![p.inst].detecting = FALSE]
    /\ pipes' = [pipes EXCEPT ![c] = [IdlePipe EXCEPT !.pc = "aborted", !.inst = p.inst]]
    /\ ev' = [kind |-> "aborted", cap |-> c]
    /\ UNCHANGED <<result, lastEmotion>>

\* Click on the capture button (enabled when ready): setError(null),
\* setDetecting(true), getScreenshot; runs up to the await of the image load.
Capture(shot) ==
    /\ ncap < MaxCaptures
    /\ cams[cur].mounted
    /\ ready(cams[cur])
    /\ ncap' = ncap + 1
    /\ LET c == ncap + 1
           p == [IdlePipe EXCEPT !.inst = cur, !.full = cams[cur].fullModelsLoaded]
           started == [cams EXCEPT ![cur].error = NoError, ![cur].detecting = TRUE]
       IN  IF shot
           THEN /\ cams' = started
                /\ pipes' = [pipes EXCEPT ![c] = [p EXCEPT !.pc = "decode"]]
                /\ ev' = NoEvent
                /\ UNCHANGED <<result, lastEmotion>>
           ELSE CaptureFailed(c, p, "Unable to capture image", started)
    /\ UNCHANGED <<cur, emotionResult>>

\* The captured image loads, or img.onerror rejects.
Decode(c, ok) ==
    /\ pipes[c].pc = "decode"
    /\ IF ok
       THEN /\ pipes' = [pipes EXCEPT ![c].pc = "fast"]
            /\ ev' = NoEvent
            /\ UNCHANGED <<result, lastEmotion, cams>>
       ELSE CaptureFailed(c, pipes[c], "Failed to load image", cams)
    /\ UNCHANGED <<cur, ncap, emotionResult>>

\* ----------------------------------------------------------- Fast Estimator
QuickOfUnclamped(o) ==
    IF o.k = "throw"
    THEN [emotion |-> "neutral", confidence |-> Pct(50)]
    ELSE LET top == getTopEmotion(IF o.k = "face" THEN Obj(o.e) ELSE Undefined)
         IN  [emotion |-> IF top.value >= Pct(20) THEN top.key ELSE "neutral",
              confidence |-> top.value]

\* Lines 111-121: the defaults stand when the detection throws.
QuickOf(o) ==
    IF o.k = "throw"
    THEN [emotion |-> "neutral", confidence |-> Pct(50)]
    ELSE LET top == getTopEmotion(IF o.k = "face" THEN Obj(o.e) ELSE Undefined)
         IN  [emotion |-> IF top.value >= Pct(20) THEN top.key ELSE "neutral",
              confidence |-> Max(Pct(1), Min(Pct(99), top.value))]

FastSilentOnThrow(c, o) ==
    /\ pipes[c].pc = "fast"
    /\ LET q == QuickOf(o)
       IN  /\ IF o.k = "throw"
              THEN UNCHANGED <<result, lastEmotion>>
              ELSE onDetected([emotion |-> q.emotion, confidence |-> q.confidence, cap |-> c])
           /\ pipes' = [pipes EXCEPT ![c] =
                          [@ EXCEPT !.pc = "frame", !.i = 0,
                                    !.quickEmotion = q.emotion,
                                    !.quickConfidence = q.confidence,
                                    !.pubs = @ + (IF o.k = "throw" THEN 0 ELSE 1)]]
           /\ ev' = [kind |-> "provisional", cap |-> c, threw |-> (o.k = "throw"), o |-> o,
                     emotion |-> q.emotion, confidence |-> q.confidence]
    /\ UNCHANGED <<cur, cams, ncap, emotionResult>>

\* The quick detection settles; the provisional result is published and the
\* background analysis starts and runs to its first await (frame 0 loading).
Fast(c, o) ==
    /\ pipes[c].pc = "fast"
    /\ LET q == QuickOf(o)
       IN  /\ onDetected([emotion |-> q.emotion, confidence |-> q.confidence, cap |-> c])
           /\ pipes' = [pipes EXCEPT ![c] =
                          [@ EXCEPT !.pc = "frame", !.i = 0,
                                    !.quickEmotion = q.emotion,
                                    !.quickConfidence = q.confidence,
                                    !.pubs = @ + 1]]
           /\ ev' = [kind |-> "provisional", cap |-> c, threw |-> (o.k = "throw"), o |-> o,
                     emotion |-> q.emotion, confidence |-> q.confidence]
    /\ UNCHANGED <<cur, cams, ncap, emotionResult>>


\* ------------------------------------------------- /api/classify (server)
allowed == <<"happy", "sad", "angry", "surprised", "fearful", "disgusted", "neutral">>
Allowed == {allowed[k] : k \in 1..Len(allowed)}

\* What the parsing chain (lines 79-136) hands to the sanitizer: nothing
\* parsed, or an object whose emotion and confidence fields hold anything.
\* An emotion of "" stands for every falsy value (absent, null, "").
Num(v) == [kind |-> "num", v |-> v]
Text == [kind |-> "text", v |-> 0]
Absent == [kind |-> "absent", v |-> 0]
RawEmotions == {"Sad", "confused", ""}
RawConfs == {Num(Pct(-30)), Num(0), Num(Pct(20)), Num(Pct(150)), Text, Absent}
NoParse == [ok |-> FALSE, emotion |-> "", confidence |-> Absent]
Parsed(e, c) == [ok |-> TRUE, emotion |-> e, confidence |-> c]
Parses == {NoParse} \cup {Parsed(e, c) : e \in RawEmotions, c \in RawConfs}

toLowerCase(s) == CASE s = "Sad" -> "sad" [] OTHER -> s

\* Number(x): NaN for undefined and for text that is no number.
ToNumber(c) ==
    IF c.kind = "num" THEN [nan |-> FALSE, v |-> c.v] ELSE [nan |-> TRUE, v |-> 0]

\* Math.max(0, Math.min(1, Number(parsed.confidence) || 0.5))
sanitizeConfidence(c) ==
    LET n == ToNumber(c)
        x == IF n.nan \/ n.v = 0 THEN Pct(50) ELSE n.v
    IN  Max(0, Min(One, x))

sanitizeEmotionUnchecked(e) ==
    toLowerCase(IF e = "" THEN "neutral" ELSE e)

\* String(parsed.emotion || "neutral").toLowerCase(), then the allowed check
sanitizeEmotion(e) ==
    LET s == toLowerCase(IF e = "" THEN "neutral" ELSE e)
    IN  IF s \in Allowed THEN s ELSE "neutral"

Reply(status, emotion, confidence, error, calls) ==
    [status |-> status, emotion |-> emotion, hasConfidence |-> (emotion # ""),
     confidence |-> confidence, error |-> error, calls |-> calls]

\* res.json(parsed) after the fallback to {neutral, 0.5} and the sanitizing
Sanitized(parsed, calls) ==
    LET p == IF parsed.ok THEN parsed ELSE Parsed("neutral", Num(Pct(50)))
    IN  Reply(200, sanitizeEmotion(p.emotion), sanitizeConfidence(p.confidence), "", calls)

\* The handler's outer catch.
Caught == Reply(200, "neutral", Pct(50), "", <<>>)

Reqs == {[body |-> FALSE, image |-> FALSE, expressions |-> FALSE]}
        \cup [body : {TRUE}, image : BOOLEAN, expressions : BOOLEAN]
Envs == [key : BOOLEAN, vision : {"ok", "fail"}, text : {"ok", "fail"}, parsed : Parses]

UpstreamAlwaysFallsBack(req, env) ==
    IF env.vision = "ok" THEN Sanitized(env.parsed, <<"vision">>)
    ELSE IF env.text = "ok"
         THEN Sanitized(env.parsed, <<"vision", "text">>)
         ELSE Reply(500, "", 0,
                    "Failed to classify image (both vision and text fallbacks failed)",
                    <<"vision", "text">>)

\* Lines 32-70: the vision call, then the text-only call when it failed and
\* expressions were supplied; a failure response ends the handler.
Upstream(req, env) ==
    IF env.vision = "ok" THEN Sanitized(env.parsed, <<"vision">>)
    ELSE IF req.expressions
         THEN IF env.text = "ok"
              THEN Sanitized(env.parsed, <<"vision", "text">>)
              ELSE Reply(500, "", 0,
                         "Failed to classify image (both vision and text fallbacks failed)",
                         <<"vision", "text">>)
         ELSE Reply(500, "", 0, "Failed to classify image (vision model failed)", <<"vision">>)

handleOpenAIClassifyKeyFirst(req, env) ==
    IF ~req.body THEN Caught
    ELSE IF ~env.key THEN Reply(500, "", 0, "OpenAI API key not configured", <<>>)
    ELSE IF ~req.image THEN Reply(400, "", 0, "Missing image in request body", <<>>)
    ELSE Upstream(req, env)

handleOpenAIClassify(req, env) ==
    IF ~req.body THEN Caught
    ELSE IF ~req.image THEN Reply(400, "", 0, "Missing image in request body", <<>>)
    ELSE IF ~env.key THEN Reply(500, "", 0, "OpenAI API key not configured", <<>>)
    ELSE Upstream(req, env)

\* --------------------------------------------------- Arbiter and the finally
NoHeur == [ran |-> FALSE, dep |-> 0, brow |-> 0, width |-> 0, sad |-> 0,
           emotion |-> "", confidence |-> 0]
NoLocal == [reached |-> FALSE, emotion |-> "", confidence |-> 0, invoked |-> FALSE]
NoRemote == [called |-> FALSE, k |-> "", ok |-> FALSE, emotion |-> "", confidence |-> 0]
NoAvg == [ran |-> FALSE, attempted |-> 0, sum |-> ZeroVec, averaged |-> ZeroVec]
NoArb == [ran |-> FALSE, quickEmotion |-> "", quickConfidence |-> 0,
          finalEmotion |-> "", finalConfidence |-> 0, emitted |-> FALSE]
BgEvent(c) == [kind |-> "background", cap |-> c, pubs |-> pipes[c].pubs,
               avg |-> NoAvg, heur |-> NoHeur, local |-> NoLocal, remote |-> NoRemote, arb |-> NoArb]

\* A capture is in flight from the click to the end of its background analysis.
InFlight(c) == pipes[c].pc \notin {"idle", "aborted", "done"}

\* The detail of a background step is recorded when no other capture is in
\* flight; with another one in flight only the step itself is recorded.
Observed(c, e) ==
    IF \A d \in Caps \ {c} : ~InFlight(d)
    THEN e
    ELSE [BgEvent(c) EXCEPT !.kind = e.kind, !.pubs = e.pubs]

DonePipe(p) == [IdlePipe EXCEPT !.pc = "done", !.inst = p.inst]

needsUpdateFloorOnly(qc, finalConfidence) ==
    finalConfidence >= Pct(50)

needsUpdate(qc, finalConfidence) ==
    finalConfidence >= qc + Pct(15) \/ finalConfidence >= Pct(50)

Emits(p) ==
    /\ p.finalEmotion # ""
    /\ p.finalEmotion # p.quickEmotion
    /\ needsUpdate(p.quickConfidence, p.finalConfidence)

\* Lines 234-249: arbitration, then the finally clears detecting.
Arbitrate(c, p, e) ==
    /\ IF Emits(p)
       THEN onDetected([emotion |-> p.finalEmotion, confidence |-> p.finalConfidence, cap |-> c])
       ELSE UNCHANGED <<result, lastEmotion>>
    /\ cams' = [cams EXCEPT ![p.inst].detecting = FALSE]
    /\ pipes' = [pipes EXCEPT ![c] = DonePipe(p)]
    /\ ev' = Observed(c, [e EXCEPT !.kind = "finished",
                                   !.pubs = p.pubs + (IF Emits(p) THEN 1 ELSE 0),
                                   !.arb = [ran |-> TRUE,
                                            quickEmotion |-> p.quickEmotion,
                                            quickConfidence |-> p.quickConfidence,
                                            finalEmotion |-> p.finalEmotion,
                                            finalConfidence |-> p.finalConfidence,
                                            emitted |-> Emits(p)]])

\* Lines 245-249: an exception in the background analysis is logged.
BackgroundFailed(c, p) ==
    /\ cams' = [cams EXCEPT ![p.inst].detecting = FALSE]
    /\ pipes' = [pipes EXCEPT ![c] = DonePipe(p)]
    /\ ev' = [BgEvent(c) EXCEPT !.kind = "bgfailed"]
    /\ UNCHANGED <<result, lastEmotion>>

\* Lines 209-220: escalate to the remote classifier when still neutral.
Escalate(c, p, e) ==
    LET loc == [reached |-> TRUE, emotion |-> p.finalEmotion,
                confidence |-> p.finalConfidence,
                invoked |-> (p.finalEmotion = "neutral")]
    IN  IF p.finalEmotion = "neutral"
        THEN /\ pipes' = [pipes EXCEPT ![c] = [p EXCEPT !.pc = "remote",
                                                        !.remoteCalls = @ + 1]]
             /\ ev' = Observed(c, [e EXCEPT !.local = loc])
             /\ UNCHANGED <<result, lastEmotion, cams>>
        ELSE Arbitrate(c, p, [e EXCEPT !.local = loc])


\* ----------------------------------------------------------- Deep Estimator
frames(p) == IF p.full THEN 3 ELSE 1

LoadFails == [k |-> "loadfail", e |-> ZeroVec]

\* accum[k] = (accum[k] || 0) + v, for every key of the frame's vector
Accumulate(accum, e) == Obj([l \in Labels |-> accum.v[l] + e[l]])

\* averaged[k] = v / Math.max(1, frames), for every key of accum
Averaged(p) ==
    IF p.accum.kind = "empty" THEN EmptyObj
    ELSE Obj([l \in Labels |-> p.accum.v[l] \div Max(1, frames(p))])

\* Lines 159-168: average, pick the top label, threshold at 0.35.
Thresholded(p) ==
    LET top == getTopEmotion(Averaged(p))
        finalScore == Max(0, Min(One, top.value))
    IN  [p EXCEPT !.finalEmotion = IF finalScore >= Pct(35) THEN top.key ELSE "neutral",
                  !.finalConfidence = finalScore]

\* The frame loop has ended: threshold, then the landmark heuristics when the
\* full tier was loaded (await of the detection on the original frame).
AfterLoop(c, p, attempted) ==
    LET t == Thresholded(p)
        e == [BgEvent(c) EXCEPT !.avg = [ran |-> TRUE, attempted |-> attempted,
                                         sum |-> p.accum.v, averaged |-> Averaged(p).v]]
    IN  IF p.full
        THEN /\ pipes' = [pipes EXCEPT ![c] = [t EXCEPT !.pc = "heur"]]
             /\ ev' = Observed(c, e)
             /\ UNCHANGED <<result, lastEmotion, cams>>
        ELSE Escalate(c, t, e)

\* Frame i loads and the detector runs on it; a rejection of either await
\* leaves the loop through the catch of the background analysis.
Frame(c, o) ==
    /\ pipes[c].pc = "frame"
    /\ LET p == pipes[c]
           a == IF o.k = "face" THEN Accumulate(p.accum, o.e) ELSE p.accum
       IN  IF o.k \in {"loadfail", "throw"}
           THEN BackgroundFailed(c, p)
           ELSE IF frames(p) > 1
                THEN /\ pipes' = [pipes EXCEPT ![c] = [p EXCEPT !.accum = a, !.pc = "wait"]]
                     /\ ev' = NoEvent
                     /\ UNCHANGED <<result, lastEmotion, cams>>
                ELSE AfterLoop(c, [p EXCEPT !.accum = a], 1)
    /\ UNCHANGED <<cur, ncap, emotionResult>>

\* The 120 ms timer fires; the next frames are taken from the webcam, whose
\* ref is null once the instance is unmounted; a frame without a screenshot
\* is skipped by `continue`.
Wait(c, shot) ==
    /\ pipes[c].pc = "wait"
    /\ LET p == pipes[c]
           src == cams[p.inst].mounted /\ shot
       IN  IF p.i + 1 < frames(p) /\ src
           THEN /\ pipes' = [pipes EXCEPT ![c] = [p EXCEPT !.i = @ + 1, !.pc = "frame"]]
                /\ ev' = NoEvent
                /\ UNCHANGED <<result, lastEmotion, cams>>
           ELSE AfterLoop(c, [p EXCEPT !.i = frames(p)], p.i + 1)
    /\ UNCHANGED <<cur, ncap, emotionResult>>

\* ------------------------------------------------------ landmark heuristics
\* Ratios in thousandths of the inter-eye distance.
SadDepression == 45
AngryBrowToEye == 30
AngryMouthWidth == 450

Lms == {[dep |-> d, brow |-> a[1], width |-> a[2]] : d \in {30, 50}, a \in {<<40, 400>>, <<20, 500>>}}
NoLm == [dep |-> 0, brow |-> 0, width |-> 0]
HeurOutcomes == {[k |-> "throw", e |-> ZeroVec, lm |-> NoLm],
                 [k |-> "none", e |-> ZeroVec, lm |-> NoLm]}
                \cup {[k |-> "face", e |-> e, lm |-> lm] : e \in HeurExprs, lm \in Lms}

\* Lines 195-198
SadOverride(f, lm, exprs) ==
    IF lm.dep > SadDepression \/ exprs["sad"] > Pct(18)
    THEN [emotion |-> "sad", confidence |-> Max(f.confidence, exprs["sad"])]
    ELSE f

\* Lines 199-202
AngryOverride(f, lm, exprs) ==
    IF lm.brow > AngryBrowToEye /\ lm.width < AngryMouthWidth
    THEN [emotion |-> "angry", confidence |-> Max(f.confidence, exprs["angry"])]
    ELSE f

\* Lines 171-207: both overrides in sequence; an error or no face changes nothing.
Heuristics(f, o) ==
    IF o.k = "face" THEN AngryOverride(SadOverride(f, o.lm, o.e), o.lm, o.e) ELSE f

\* The image of line 174 fails to load: the promise of line 175 has no
\* onerror and never settles, so the background analysis stays at its await.
HeurLoadFails == [k |-> "loadfail", e |-> ZeroVec, lm |-> NoLm]

Heur(c, o) ==
    /\ pipes[c].pc = "heur"
    /\ LET p == pipes[c]
           h == Heuristics([emotion |-> p.finalEmotion, confidence |-> p.finalConfidence], o)
           e == [BgEvent(c) EXCEPT !.heur =
                    [ran |-> (o.k = "face"), dep |-> o.lm.dep, brow |-> o.lm.brow,
                     width |-> o.lm.width, sad |-> o.e["sad"],
                     emotion |-> h.emotion, confidence |-> h.confidence]]
       IN  IF o = HeurLoadFails
           THEN /\ pipes' = [pipes EXCEPT ![c].pc = "pending"]
                /\ ev' = NoEvent
                /\ UNCHANGED <<result, lastEmotion, cams>>
           ELSE Escalate(c, [p EXCEPT !.finalEmotion = h.emotion,
                                      !.finalConfidence = h.confidence], e)
    /\ UNCHANGED <<cur, ncap, emotionResult>>

\* ------------------------------------------------- remote fallback (client)
\* The fetch of /api/classify: it rejects (network error, abort at 8 s), or
\* the handler answers; reading the body as JSON may fail as well.
ClientReq == [body |-> TRUE, image |-> TRUE, expressions |-> TRUE]
Rejects(k) == [k |-> k, r |-> Caught]
Answers(r) == [k |-> "response", r |-> r]
RemoteOutcomes ==
    {Rejects("network"), Rejects("abort"), Rejects("badjson")}
    \cup {Answers(handleOpenAIClassify(ClientReq, env)) : env \in Envs}

ok(r) == r.status >= 200 /\ r.status <= 299

AdoptReturned(f, o) ==
    IF o.k = "response" /\ ok(o.r)
    THEN LET conf == Max(0, Min(One, IF o.r.hasConfidence THEN o.r.confidence ELSE 0))
         IN  IF o.r.emotion # "" /\ conf >= Pct(20)
             THEN [emotion |-> o.r.emotion, confidence |-> conf]
             ELSE f
    ELSE f

AdoptDefaulting(f, o) ==
    IF o.k = "response" /\ ok(o.r)
    THEN LET conf == Max(0, Min(One, IF o.r.hasConfidence THEN o.r.confidence ELSE 0))
         IN  IF o.r.emotion # "" /\ conf >= Pct(20)
             THEN [emotion |-> o.r.emotion, confidence |-> Max(f.confidence, conf)]
             ELSE f
    ELSE [emotion |-> "neutral", confidence |-> Pct(50)]

\* Lines 221-228
Adopt(f, o) ==
    IF o.k = "response" /\ ok(o.r)
    THEN LET conf == Max(0, Min(One, IF o.r.hasConfidence THEN o.r.confidence ELSE 0))
         IN  IF o.r.emotion # "" /\ conf >= Pct(20)
             THEN [emotion |-> o.r.emotion, confidence |-> Max(f.confidence, conf)]
             ELSE f
    ELSE f

Remote(c, o) ==
    /\ pipes[c].pc = "remote"
    /\ LET p == pipes[c]
           f == Adopt([emotion |-> p.finalEmotion, confidence |-> p.finalConfidence], o)
           e == [BgEvent(c) EXCEPT
                    !.local = [reached |-> TRUE, emotion |-> p.finalEmotion,
                               confidence |-> p.finalConfidence, invoked |-> TRUE],
                    !.remote = [called |-> TRUE, k |-> o.k,
                                ok |-> (o.k = "response" /\ ok(o.r)),
                                emotion |-> IF o.k = "response" THEN o.r.emotion ELSE "",
                                confidence |-> IF o.k = "response" THEN o.r.confidence ELSE 0]]
       IN  Arbitrate(c, [p EXCEPT !.finalEmotion = f.emotion,
                                  !.finalConfidence = f.confidence], e)
    /\ UNCHANGED <<cur, ncap, emotionResult>>

\* ----------------------------------------------------------- specification
Next ==
    \/ \E b \in BOOLEAN : loadFast(b)
    \/ \E b \in BOOLEAN : loadFull(b)
    \/ \E shot \in BOOLEAN : Capture(shot)
    \/ \E c \in Caps, b \in BOOLEAN : Decode(c, b)
    \/ \E c \in Caps, o \in FastOutcomes : Fast(c, o)
    \/ \E c \in Caps, o \in FrameOutcomes \cup {LoadFails} : Frame(c, o)
    \/ \E c \in Caps, shot \in BOOLEAN : Wait(c, shot)
    \/ \E c \in Caps, o \in HeurOutcomes \cup {HeurLoadFails} : Heur(c, o)
    \/ \E c \in Caps, o \in RemoteOutcomes : Remote(c, o)
    \/ UnmountCamera
    \/ reset
    \/ MountCamera

Spec == Init /\ [][Next]_vars

\* Every await of a capture settles: the step of a pipeline that is enabled
\* is eventually taken.
Step(c) ==
    \/ \E b \in BOOLEAN : Decode(c, b)
    \/ \E o \in FastOutcomes : Fast(c, o)
    \/ \E o \in FrameOutcomes \cup {LoadFails} : Frame(c, o)
    \/ \E shot \in BOOLEAN : Wait(c, shot)
    \/ \E o \in HeurOutcomes \cup {HeurLoadFails} : Heur(c, o)
    \/ \E o \in RemoteOutcomes : Remote(c, o)

SpecLive == Spec /\ \A c \in Caps : WF_vars(Step(c))

\* ------------------------------------------- the handler of /api/classify
\* One request from any client, with what the upstream calls and the parsing
\* of their output turn out to be; ev holds the exchange.
Classify(req, env) ==
    /\ ev' = [kind |-> "classify", cap |-> 0, req |-> req, env |-> env,
              resp |-> handleOpenAIClassify(req, env)]
    /\ UNCHANGED <<result, lastEmotion, cur, cams, ncap, pipes, emotionResult>>

NextServer == \E req \in Reqs, env \in Envs : Classify(req, env)

SpecServer == Init /\ [][NextServer]_vars

\* ------------------------------------------- EmotionResult and its proxies
\* handleJoke (joke.ts) and handleQuote (quote.ts): 502 when the upstream call
\* throws or returns nothing usable.
Upstreams == {[k |-> "throw", text |-> ""], [k |-> "data", text |-> ""],
              [k |-> "data", text |-> "text"]}
Proxied(status, text) == [status |-> status, text |-> text]
handleJoke(up) ==
    IF up.k = "throw" THEN Proxied(502, "")
    ELSE IF up.text = "" THEN Proxied(502, "")
    ELSE Proxied(200, "A joke")
handleQuote(up) ==
    IF up.k = "throw" THEN Proxied(502, "")
    ELSE IF up.text = "" THEN Proxied(502, "")
    ELSE Proxied(200, "A quote")

\* What a fetch of the component settles to: a rejection or a response.
FetchRejects == [k |-> "reject", status |-> 0, text |-> ""]
Responds(r) == [k |-> "response", status |-> r.status, text |-> r.text]
JokeFetches == {FetchRejects} \cup {Responds(handleJoke(up)) : up \in Upstreams}
QuoteFetches == {FetchRejects} \cup {Responds(handleQuote(up)) : up \in Upstreams}
Failed(f) == f.k = "reject" \/ ~ok(f)

Intro == "Hey, I can tell this is a tough moment. Here are a couple of light jokes:"
FetchError == "Failed to fetch suggestion. Please try again."

\* [ja?.joke, jb?.joke].filter(Boolean), and the text built from it
Jokes(a, b) ==
    (IF ok(a) /\ a.text # "" THEN <<a.text>> ELSE <<>>)
    \o (IF ok(b) /\ b.text # "" THEN <<b.text>> ELSE <<>>)
JokeText(a, b) ==
    <<Intro>> \o (IF Jokes(a, b) # <<>> THEN Jokes(a, b) ELSE <<"Here's a smile for you!">>)

\* The try block has returned text: setMessage, then the finally.
Suggested(v, text) == [v EXCEPT !.message = text, !.loading = FALSE]
\* The catch: setError, then the finally.
SuggestionFailed(v) == [v EXCEPT !.error = FetchError, !.loading = FALSE]

\* The emotion prop is e (first render, or a render with another emotion):
\* the effect calls run(), which runs up to its first await, or to its end
\* for the emotions that fetch nothing.
Render(e) ==
    /\ e # emotionResult.emotion
    /\ emotionResult.nrun < MaxRuns
    /\ LET r == emotionResult.nrun + 1
           v == [emotionResult EXCEPT !.emotion = e, !.nrun = r,
                                      !.loading = TRUE, !.error = NoError]
       IN  emotionResult' =
             IF e \in {"sad", "angry"}
             THEN [v EXCEPT !.runs[r] = [pc |-> "fetching", emotion |-> e]]
             ELSE [Suggested(v, IF e = "happy" THEN <<"Keep smiling!">>
                                ELSE <<"I hope you are doing well">>)
                     EXCEPT !.runs[r] = [pc |-> "done", emotion |-> e]]
    /\ ev' = [kind |-> "render", cap |-> 0]
    /\ UNCHANGED <<result, lastEmotion, cur, cams, ncap, pipes>>

\* Both joke fetches of a run for "sad" have settled (Promise.all).
SettleJokes(r, a, b) ==
    /\ emotionResult.runs[r] = [pc |-> "fetching", emotion |-> "sad"]
    /\ LET v == [emotionResult EXCEPT !.runs[r].pc = "done"]
       IN  emotionResult' =
             IF a.k = "reject" \/ b.k = "reject"
             THEN SuggestionFailed(v)
             ELSE Suggested(v, JokeText(a, b))
    /\ ev' = [kind |-> "suggestion", cap |-> 0, run |-> r, emotion |-> "sad",
              fetches |-> <<a, b>>]
    /\ UNCHANGED <<result, lastEmotion, cur, cams, ncap, pipes>>

\* The quote fetch of a run for "angry" has settled.
SettleQuote(r, q) ==
    /\ emotionResult.runs[r] = [pc |-> "fetching", emotion |-> "angry"]
    /\ LET v == [emotionResult EXCEPT !.runs[r].pc = "done"]
       IN  emotionResult' =
             IF q.k = "reject" \/ ~ok(q)
             THEN SuggestionFailed(v)
             ELSE Suggested(v, <<IF q.text # "" THEN q.text ELSE "Breathe. Reset. Refocus.">>)
    /\ ev' = [kind |-> "suggestion", cap |-> 0, run |-> r, emotion |-> "angry",
              fetches |-> <<q>>]
    /\ UNCHANGED <<result, lastEmotion, cur, cams, ncap, pipes>>

NextSuggest ==
    \/ \E e \in Labels : Render(e)
    \/ \E r \in Runs, a, b \in JokeFetches : SettleJokes(r, a, b)
    \/ \E r \in Runs, q \in QuoteFetches : SettleQuote(r, q)

SpecSuggest == Init /\ [][NextSuggest]_vars

\* ------------------------------------------------------ the top-label picker
\* getTopEmotion applied to any expression object: up to MaxEntries entries
\* with distinct keys, or no object at all; ev holds the call.
MaxEntries == 2
TopKeys == {"neutral", "happy", "sad"}
TopValues == {Pct(-50), 0, Pct(30), Pct(60)}
TopEntries ==
    {es \in UNION {[1..n -> [key : TopKeys, value : TopValues]] : n \in 0..MaxEntries} :
        \A j, k \in DOMAIN es : j # k => es[j].key # es[k].key}

PickTop(x) ==
    /\ ev' = [kind |-> "top", cap |-> 0, input |-> x, out |-> getTopEmotion(x)]
    /\ UNCHANGED <<result, lastEmotion, cur, cams, ncap, pipes, emotionResult>>

NextTop ==
    \/ PickTop(Undefined)
    \/ \E es \in TopEntries : PickTop(Rec(es))

SpecTop == Init /\ [][NextTop]_vars


\* ------------------------------------------------------------------ claims
BgStep == ev.kind \in {"background", "finished"}
CamOf(c) == cams[pipes[c].inst]
Published(e, k, c) == result = [emotion |-> e, confidence |-> k, cap |-> c]

\* C1: when the background analysis of a capture reaches the arbiter with
\* provisional (qLabel, qConf) and final (fLabel, fConf), a second onDetected
\* is emitted if and only if fLabel # qLabel and (fConf >= qConf + 0.15 or
\* fConf >= 0.5); the update carries the final result, and without an update
\* the provisional result of the capture is what the page still holds.
C1_ArbiterRule ==
    (ev.kind = "finished" /\ ev.arb.ran) =>
        LET a == ev.arb
            update == /\ a.finalEmotion # a.quickEmotion
                      /\ \/ a.finalConfidence >= a.quickConfidence + Pct(15)
                         \/ a.finalConfidence >= Pct(50)
        IN  /\ update <=> ev.pubs = 2
            /\ update => Published(a.finalEmotion, a.finalConfidence, ev.cap)
            /\ ~update => /\ ev.pubs = 1
                          /\ result.cap = ev.cap =>
                                Published(a.quickEmotion, a.quickConfidence, ev.cap)

\* An update emitted on the relative improvement alone (final below 0.5).
C1_Witness ==
    /\ ev.kind = "finished" /\ ev.arb.ran
    /\ ev.pubs = 2
    /\ ev.arb.finalConfidence < Pct(50)
    /\ ev.arb.finalEmotion # ev.arb.quickEmotion

\* C2: a capture publishes nothing before its quick detection settles; the
\* step that settles it publishes the provisional result exactly once, also
\* when the detection threw (then neutral, 0.5), and leaves the background
\* analysis at its very start; every later stage of the background analysis
\* runs with exactly one result published, and a capture ends with one or two.
C2_ProvisionalFirst ==
    /\ \A c \in Caps :
          /\ pipes[c].pc \in {"idle", "decode", "fast", "aborted"} =>
                pipes[c].pubs = 0 /\ result.cap # c
          /\ pipes[c].pc \in {"frame", "wait", "heur", "remote"} => pipes[c].pubs = 1
    /\ ev.kind = "provisional" =>
          /\ pipes[ev.cap].pc = "frame"
          /\ pipes[ev.cap].i = 0
          /\ pipes[ev.cap].accum = EmptyObj
          /\ Published(ev.emotion, ev.confidence, ev.cap)
          /\ ev.threw => ev.emotion = "neutral" /\ ev.confidence = Pct(50)
    /\ ev.kind \in {"finished", "bgfailed"} => ev.pubs \in {1, 2}

\* The quick detection threw and the provisional result is on the page.
C2_Witness ==
    /\ ev.kind = "provisional"
    /\ ev.threw
    /\ Published("neutral", Pct(50), ev.cap)

\* C3: at most one capture pipeline is in flight at any time.
C3_NoOverlap == Cardinality({c \in Caps : InFlight(c)}) <= 1

\* C4: a capture that gets no frame, or whose image fails to load, ends with
\* an error message set, nothing published for it (no provisional, no final
\* result, the background analysis not started) and detecting false, so that
\* the capture button is enabled again.
C4_CaptureFailure ==
    /\ \A c \in Caps :
          pipes[c].pc = "aborted" =>
              /\ pipes[c].pubs = 0 /\ result.cap # c
              /\ pipes[c].i = 0 /\ pipes[c].accum = EmptyObj /\ pipes[c].remoteCalls = 0
    /\ ev.kind = "aborted" =>
          /\ pipes[ev.cap].pc = "aborted"
          /\ CamOf(ev.cap).error \in {"Unable to capture image", "Failed to load image"}
          /\ ~CamOf(ev.cap).detecting
          /\ ready(CamOf(ev.cap))

\* The image of a capture failed to load; its instance shows the error.
C4_Witness ==
    /\ ev.kind = "aborted"
    /\ CamOf(ev.cap).mounted
    /\ CamOf(ev.cap).error = "Failed to load image"
    /\ ~CamOf(ev.cap).detecting

\* C5: with landmarks available, mouth-corner depression > 0.045 or a sad
\* score > 0.18 makes the label after the heuristics "sad", also when the
\* angry condition holds as well.
C5_SadPrecedence ==
    (BgStep /\ ev.heur.ran /\ (ev.heur.dep > 45 \/ ev.heur.sad > Pct(18))) =>
        ev.heur.emotion = "sad"

\* C6: the remote classifier is invoked exactly when the label after
\* averaging and heuristics is "neutral"; its answer is adopted exactly when
\* the call succeeds with a non-empty label and clamped confidence >= 0.2,
\* then with confidence max(local, returned); otherwise the final result is
\* "neutral" with the local confidence.
C6_RemoteEscalation ==
    /\ \A c \in Caps :
          pipes[c].pc = "remote" =>
              pipes[c].finalEmotion = "neutral" /\ pipes[c].remoteCalls = 1
    /\ (BgStep /\ ev.local.reached) =>
          LET l == ev.local
              r == ev.remote
              a == ev.arb
              conf == Max(0, Min(One, r.confidence))
              adopted == r.ok /\ r.emotion # "" /\ conf >= Pct(20)
          IN  /\ l.emotion = "neutral" <=> (r.called \/ pipes[ev.cap].pc = "remote")
              /\ r.called =>
                    /\ a.ran
                    /\ adopted => /\ a.finalEmotion = r.emotion
                                  /\ a.finalConfidence = Max(l.confidence, conf)
                    /\ ~adopted => /\ a.finalEmotion = "neutral"
                                   /\ a.finalConfidence = l.confidence
              /\ (a.ran /\ ~r.called) => /\ a.finalEmotion = l.emotion
                                         /\ a.finalConfidence = l.confidence

\* A remote answer adopted with the local confidence, the greater of the two.
C6_Witness ==
    /\ ev.kind = "finished" /\ ev.remote.called /\ ev.remote.ok
    /\ ev.remote.confidence >= Pct(20)
    /\ ev.local.confidence > ev.remote.confidence
    /\ ev.arb.finalEmotion = "sad"
    /\ ev.arb.finalConfidence = ev.local.confidence

\* C7: when the call to /api/classify fails (network error, abort, non-2xx
\* status, body that is no JSON), the same step goes on to the arbitration
\* with "neutral" and the local confidence, ends the capture (no second
\* call), sets no error and clears detecting.
C7_RemoteFailureAbsorbed ==
    (BgStep /\ ev.remote.called /\ ~ev.remote.ok) =>
        /\ ev.kind = "finished" /\ ev.arb.ran
        /\ ev.arb.finalEmotion = "neutral"
        /\ ev.arb.finalConfidence = ev.local.confidence
        /\ pipes[ev.cap].pc = "done"
        /\ CamOf(ev.cap).error = NoError
        /\ ~CamOf(ev.cap).detecting

\* The fetch was aborted and the capture is over.
C7_Witness ==
    /\ ev.kind = "finished" /\ ev.remote.called
    /\ ev.remote.k = "abort"
    /\ pipes[ev.cap].pc = "done"

SevenLabels == {"happy", "sad", "angry", "surprised", "fearful", "disgusted", "neutral"}
ValidResult(e, k) == e \in SevenLabels /\ k >= 0 /\ k <= One

\* C8: a request with an image, while the credential is configured, is
\* answered 200 with a valid {emotion, confidence}; 400 only for missing
\* input, 500 only for a missing credential.
C8_StatusContract ==
    ev.kind = "classify" =>
        /\ (ev.req.body /\ ev.req.image /\ ev.env.key) =>
              /\ ev.resp.status = 200
              /\ ValidResult(ev.resp.emotion, ev.resp.confidence)
        /\ ev.resp.status = 400 => ~ev.req.image
        /\ ev.resp.status = 500 => ~ev.env.key

\* C9: the confidence answered for a parsed upstream result is clamp(c, 0, 1)
\* when the parsed confidence c is a number, and 0.5 otherwise.
C9_ConfidenceSanitized ==
    (ev.kind = "classify" /\ ev.resp.status = 200 /\ ev.resp.calls # <<>> /\ ev.env.parsed.ok) =>
        LET c == ev.env.parsed.confidence
        IN  ev.resp.confidence = IF c.kind = "num" THEN Max(0, Min(One, c.v)) ELSE Pct(50)

\* Every 200 body of the handler, for every request and upstream outcome.
ClassifyBodiesValid ==
    \A req \in Reqs, env \in Envs :
        LET r == handleOpenAIClassify(req, env)
        IN  r.status = 200 =>
                /\ ValidResult(r.emotion, r.confidence)
                /\ (r.calls # <<>> /\ env.parsed.ok /\ env.parsed.emotion \in {"", "confused"}) =>
                      r.emotion = "neutral"

\* C10: every result published through onDetected, provisional or final, and
\* every 200 body of /api/classify, has a confidence within [0, 1] and one of
\* the seven labels; an absent or invalid label in the body is "neutral".
C10_ResultInvariant ==
    /\ result # NoResult => ValidResult(result.emotion, result.confidence)
    /\ ev.kind = "provisional" => ValidResult(ev.emotion, ev.confidence)
    /\ (BgStep /\ ev.remote.ok) => ValidResult(ev.remote.emotion, ev.remote.confidence)
    /\ ClassifyBodiesValid

\* A label produced by the remote classifier is the one on the page.
C10_Witness ==
    /\ ev.kind = "finished" /\ ev.remote.called /\ ev.remote.ok
    /\ ev.pubs = 2
    /\ Published(ev.remote.emotion, ev.arb.finalConfidence, ev.cap)
    /\ ev.remote.emotion = "sad"

\* The greatest score of an expression vector and the labels that reach it.
TopScore(e) == CHOOSE s \in {e[l] : l \in Labels} : \A l \in Labels : e[l] <= s
TopLabels(e) == {l \in Labels : e[l] = TopScore(e)}

\* C11: for a vector returned by the fast detector with top entry (label,
\* score), the provisional label is "neutral" when score < 0.2 and label
\* otherwise, and the provisional confidence is score clamped to
\* [0.01, 0.99]; no detected face gives neutral with confidence 0.01.
C11_FastPolicy ==
    (ev.kind = "provisional" /\ ~ev.threw) =>
        /\ ev.o.k = "none" => ev.emotion = "neutral" /\ ev.confidence = Pct(1)
        /\ ev.o.k = "face" =>
              LET score == TopScore(ev.o.e)
              IN  /\ score < Pct(20) => ev.emotion = "neutral"
                  /\ score >= Pct(20) => ev.emotion \in TopLabels(ev.o.e)
                  /\ ev.confidence = Max(Pct(1), Min(Pct(99), score))
        /\ Published(ev.emotion, ev.confidence, ev.cap)

\* Score 0.21 with top label happy: happy with confidence 0.21 is published.
C11_Witness ==
    /\ ev.kind = "provisional"
    /\ ev.o = Face(Vec1("happy", Pct(21)))
    /\ Published("happy", Pct(21), ev.cap)

\* C12: the averaged score of each label is the sum of the label's scores
\* over the sampled frames divided by the number of frames attempted (a
\* screenshot was obtained and detection ran on it), also when later frames
\* could not be captured.
C12_AverageByAttempted ==
    (BgStep /\ ev.avg.ran) =>
        \A l \in Labels : ev.avg.averaged[l] * ev.avg.attempted = ev.avg.sum[l]

\* C13: getTopEmotion returns the entry with the greatest value among the
\* entries whose value is > 0, the first of them in insertion order on a tie;
\* with no entry > 0 (empty, all zeros, absent) it returns the default label
\* "neutral".
C13_TopPicker ==
    ev.kind = "top" =>
        LET es == Entries(ev.input)
            pos == {k \in DOMAIN es : es[k].value > 0}
        IN  IF pos = {}
            THEN ev.out.key = "neutral"
            ELSE \E k \in pos :
                    /\ \A j \in pos : es[j].value <= es[k].value
                    /\ \A j \in pos : es[j].value = es[k].value => k <= j
                    /\ ev.out = es[k]

\* C14: an instance whose fast tier failed to load shows the error and never
\* enables capture; once a full-tier load has failed, every later pipeline
\* runs without the full tier (1 frame, no heuristics); capture is enabled
\* only while the fast tier is loaded and no detection is in progress.
C14_LoaderIsolation ==
    /\ \A n \in Insts :
          cams[n].loadFast = "failed" =>
              /\ cams[n].error = "Failed to load fast face models. Check your connection."
              /\ ~ready(cams[n])
    /\ \A c \in Caps :
          (InFlight(c) /\ \E n \in 1..pipes[c].inst : cams[n].loadFull = "failed") =>
              /\ ~pipes[c].full
              /\ frames(pipes[c]) = 1
              /\ pipes[c].pc # "heur"
    /\ (cams[cur].mounted /\ ready(cams[cur])) =>
          /\ cams[cur].fastModelsLoaded
          /\ \A c \in Caps : ~InFlight(c)

\* C15: once the fast-loaded (respectively full-loaded) flag the page works
\* with is true, it stays true under every step: captures, results, resets.
C15_ReadinessMonotonic ==
    [][/\ cams[cur].fastModelsLoaded => cams'[cur'].fastModelsLoaded
       /\ cams[cur].fullModelsLoaded => cams'[cur'].fullModelsLoaded]_vars

\* C16: the persisted last-known mood is the emotion of the result accepted
\* last: every accepted result writes its emotion, a reset leaves the value
\* as it is, and no other step changes it.
C16_LastEmotion ==
    /\ [](result # NoResult => lastEmotion = result.emotion)
    /\ [][/\ result' = NoResult => lastEmotion' = lastEmotion
          /\ lastEmotion' # lastEmotion =>
                /\ result' # NoResult /\ result' # result
                /\ lastEmotion' = result'.emotion]_vars

\* After a final update to sad and a reset, the persisted mood is still sad.
C16_Witness ==
    /\ result = NoResult
    /\ lastEmotion = "sad"
    /\ \E c \in Caps : pipes[c].pc = "done" /\ pipes[c].inst = cur

\* C17: when a fetch of a run for sad (two joke fetches) or angry (one quote
\* fetch) fails, by a network rejection or a non-2xx answer, the run leaves
\* the component in its visible error state.
C17_FetchFailureVisible ==
    (ev.kind = "suggestion" /\ \E k \in DOMAIN ev.fetches : Failed(ev.fetches[k])) =>
        /\ emotionResult.error = FetchError
        /\ ~emotionResult.loading

\* C18: a request whose body has no image is answered 400 with the error
\* "Missing image in request body", with or without the credential, and no
\* upstream call is made; with an image and no credential the answer is 500
\* and no upstream call is made.
C18_InputCheckFirst ==
    (ev.kind = "classify" /\ ev.req.body) =>
        /\ ~ev.req.image =>
              /\ ev.resp.status = 400
              /\ ev.resp.error = "Missing image in request body"
              /\ ev.resp.emotion = ""
              /\ ev.resp.calls = <<>>
        /\ (ev.req.image /\ ~ev.env.key) =>
              /\ ev.resp.status = 500
              /\ ev.resp.calls = <<>>

\* No image and no credential: the answer is the 400 of the input check.
C18_Witness ==
    /\ ev.kind = "classify"
    /\ ev.req.body /\ ~ev.req.image /\ ~ev.env.key
    /\ ev.resp.status = 400
    /\ ev.resp.calls = <<>>

\* C19: when the image decode or the detection of a sampled frame throws,
\* the frame contributes nothing and the background analysis goes on (the
\* remaining frames, thresholding, heuristics, escalation, arbitration), and
\* no error is shown.
C19_FrameFailureAbsorbed ==
    ev.kind = "bgfailed" =>
        /\ CamOf(ev.cap).error = NoError
        /\ InFlight(ev.cap) \/ ev.arb.ran

C21_NoStaleResult ==
    [][/\ (result = NoResult /\ result' # NoResult) => ev'.kind = "provisional"
       /\ (result # NoResult /\ result' # NoResult) => result'.cap >= result.cap
       /\ (result = NoResult /\ lastEmotion' # lastEmotion) => ev'.kind = "provisional"]_vars

\* C22: when a run of the effect settles after the emotion has changed and a
\* newer run has started, it leaves the message, the loading flag and the
\* error of the component as they are, so that they stay those of the run
\* for the emotion on display.
C22_SuggestionMatchesEmotion ==
    [][(ev'.kind = "suggestion" /\ ev'.run # emotionResult.nrun) =>
          /\ emotionResult'.message = emotionResult.message
          /\ emotionResult'.loading = emotionResult.loading
          /\ emotionResult'.error = emotionResult.error]_vars

\* C23: every capture that has set detecting to true eventually ends, with
\* detecting set back to false by its catch or its finally.
C23_EveryCaptureTerminates ==
    \A c \in Caps :
        (pipes[c].pc = "decode") ~> (pipes[c].pc \in {"aborted", "done"})

\* C24: when /api/classify answers its default {neutral, 0.5} to a pipeline
\* whose provisional label is not neutral, the arbiter emits no update and
\* the provisional result stands.
C24_DefaultNeverDisplaces ==
    (/\ ev.kind = "finished" /\ ev.remote.called /\ ev.remote.ok
     /\ ev.remote.emotion = "neutral" /\ ev.remote.confidence = Pct(50)
     /\ ev.arb.quickEmotion # "neutral") =>
        /\ ~ev.arb.emitted
        /\ ev.pubs = 1
        /\ result.cap = ev.cap =>
              Published(ev.arb.quickEmotion, ev.arb.quickConfidence, ev.cap)

====
